---- MODULE Spec2Model ----
(***************************************************************************)
(* Robustness analysis of a network (robustness_subgraph.py).              *)
(*                                                                         *)
(* One call of degree(), betweenness() or rand() reads a graph, splits its *)
(* nodes into the subgroups fungi, Bact and lipid and runs the node        *)
(* removal loop rem_degr / rem_betw / rem_rand once per subgroup, all      *)
(* three runs on the one graph object g.                                   *)
(*                                                                         *)
(* Python floats are modelled as exact rationals <<num, den>> in lowest    *)
(* terms (rounding is not modelled).  Node ids are small integers and a    *)
(* dict of nodes is iterated in ascending id order.                        *)
(*                                                                         *)
(* Two behaviours of networkx differ between its releases and are left     *)
(* open: Graph.subgraph returns a copy (1.x) or a view of g (2.x), chosen  *)
(* once per call in subgraphIsView; degree_centrality of a one-node graph  *)
(* raises ZeroDivisionError or returns 1, chosen per run.                  *)
(***************************************************************************)
EXTENDS Integers, Sequences, FiniteSets, TLC

\* Largest number of nodes of an arbitrary input graph.
MaxNodes == 3
\* Largest number of nodes of a shaped (complete, cycle, path, star) input graph.
MaxShape == 5

-----------------------------------------------------------------------------
(* Exact arithmetic standing for Python floats.                            *)

Abs(a) == IF a < 0 THEN -a ELSE a

RECURSIVE GCD(_, _)
GCD(a, b) == IF b = 0 THEN a ELSE GCD(b, a % b)

\* a * 1. / b, for b > 0
Q(a, b) == LET c == GCD(Abs(a), b) IN <<a \div c, b \div c>>

QAdd(p, q) == Q(p[1] * q[2] + q[1] * p[2], p[2] * q[2])

QSub(p, q) == Q(p[1] * q[2] - q[1] * p[2], p[2] * q[2])

QDivInt(p, k) == Q(p[1], p[2] * k)

QLess(p, q) == p[1] * q[2] < q[1] * p[2]

-----------------------------------------------------------------------------
(* Graphs: [nodes |-> set of ids, edges |-> set of two-element sets].      *)

Max(S) == CHOOSE a \in S : \A b \in S : b <= a

Min(S) == CHOOSE a \in S : \A b \in S : a <= b

\* iteration order of a dict keyed by small integers
RECURSIVE Iter(_)
Iter(S) == IF S = {} THEN <<>> ELSE <<Min(S)>> \o Iter(S \ {Min(S)})

Neighbors(g, v) == {u \in g.nodes : {u, v} \in g.edges}

Degree(g, v) == Cardinality(Neighbors(g, v))

\* a removal that deletes the node's edges and leaves the node
remove_node_edges_only(g, v) ==
    [nodes |-> g.nodes, edges |-> {e \in g.edges : v \notin e}]

\* Graph.remove_node: the node and its incident edges
remove_node(g, v) ==
    [nodes |-> g.nodes \ {v}, edges |-> {e \in g.edges : v \notin e}]

\* Graph.subgraph: the subgraph induced on S
InducedSubgraph(g, S) ==
    [nodes |-> g.nodes \cap S, edges |-> {e \in g.edges : e \subseteq S}]

RECURSIVE Reach(_, _)
Reach(g, S) ==
    LET T == S \cup UNION {Neighbors(g, v) : v \in S}
    IN IF T = S THEN S ELSE Reach(g, T)

connected_components(g) == {Reach(g, {v}) : v \in g.nodes}

\* len(max(networkx.connected_components(g), key = len)); needs a node
LargestComponentSize(g) == Max({Cardinality(c) : c \in connected_components(g)})

IsConnected(g) == g.nodes # {} /\ Cardinality(connected_components(g)) = 1

-----------------------------------------------------------------------------
(* Centralities.                                                           *)

\* BFS layers from s: layer[d] is the set of nodes at distance d - 1
RECURSIVE Layers(_, _, _)
Layers(g, seen, acc) ==
    LET last == acc[Len(acc)]
        nxt == (UNION {Neighbors(g, v) : v \in last}) \ seen
    IN IF nxt = {} THEN acc ELSE Layers(g, seen \cup nxt, Append(acc, nxt))

\* distance from s to t, -1 when t cannot be reached
DistIn(ls, t) ==
    LET at == {d \in 1..Len(ls) : t \in ls[d]}
    IN IF at = {} THEN -1 ELSE Min(at) - 1

RECURSIVE SumOver(_, _)
SumOver(S, f) ==
    IF S = {} THEN 0
    ELSE LET a == CHOOSE b \in S : TRUE IN f[a] + SumOver(S \ {a}, f)

\* the number of shortest paths from the source to each node it reaches,
\* layer by layer: a node's count is the sum over its predecessors
RECURSIVE PathCounts(_, _, _, _)
PathCounts(g, ls, d, acc) ==
    IF d > Len(ls) THEN acc
    ELSE PathCounts(g, ls, d + 1,
             acc @@ [t \in ls[d] |->
                       SumOver(Neighbors(g, t) \cap ls[d - 1], acc)])

RECURSIVE QSumOver(_, _)
QSumOver(S, f) ==
    IF S = {} THEN Q(0, 1)
    ELSE LET a == CHOOSE b \in S : TRUE IN QAdd(f[a], QSumOver(S \ {a}, f))

\* networkx.betweenness_centrality (normalized): node -> score.  For every
\* ordered pair (s, t) the fraction of the shortest s-t paths through v.
betweenness_centrality(g) ==
    LET k == Cardinality(g.nodes)
        layers == [s \in g.nodes |-> Layers(g, {s}, <<{s}>>)]
        dist == [s \in g.nodes |-> [t \in g.nodes |-> DistIn(layers[s], t)]]
        sigma == [s \in g.nodes |->
                    PathCounts(g, layers[s], 2, [t \in {s} |-> 1])]
        through(s, t, v) ==
            IF dist[s][t] > 0 /\ dist[s][v] > 0 /\ dist[v][t] > 0
               /\ dist[s][v] + dist[v][t] = dist[s][t]
            THEN Q(sigma[s][v] * sigma[v][t], sigma[s][t])
            ELSE Q(0, 1)
        pairs(v) == {p \in (g.nodes \ {v}) \X (g.nodes \ {v}) : p[1] # p[2]}
        raw(v) == QSumOver(pairs(v),
                           [p \in pairs(v) |-> through(p[1], p[2], v)])
    IN [v \in g.nodes |->
           IF k > 2 THEN QDivInt(raw(v), (k - 1) * (k - 2)) ELSE raw(v)]

\* networkx.degree_centrality: node -> degree / (len(G) - 1).  A graph of one
\* node has no such quotient (see DegreeCentralityRaises).
degree_centrality(g) ==
    LET k == Cardinality(g.nodes)
    IN [v \in g.nodes |-> IF k > 1 THEN Q(Degree(g, v), k - 1) ELSE Q(1, 1)]

\* list.insert keeping ascending score order
RECURSIVE InsertAscending(_, _)
InsertAscending(item, s) ==
    IF s = <<>> THEN <<item>>
    ELSE IF QLess(item[2], Head(s)[2]) THEN <<item>> \o s
    ELSE <<Head(s)>> \o InsertAscending(item, Tail(s))

RECURSIVE SortAscending(_, _)
SortAscending(items, acc) ==
    IF items = <<>> THEN acc
    ELSE SortAscending(Tail(items), InsertAscending(Head(items), acc))

\* list.insert keeping descending score order, equal scores in arrival order
RECURSIVE InsertDescending(_, _)
InsertDescending(item, s) ==
    IF s = <<>> THEN <<item>>
    ELSE IF QLess(Head(s)[2], item[2]) THEN <<item>> \o s
    ELSE <<Head(s)>> \o InsertDescending(item, Tail(s))

RECURSIVE SortDescending(_, _)
SortDescending(items, acc) ==
    IF items = <<>> THEN acc
    ELSE SortDescending(Tail(items), InsertDescending(Head(items), acc))

\* m.items() in iteration order
Items(m) == LET order == Iter(DOMAIN m)
            IN [j \in 1..Len(order) |-> <<order[j], m[order[j]]>>]

\* the sort without reverse = True
SortedItemsAscending(m) == SortAscending(Items(m), <<>>)

\* sorted(m.items(), key = operator.itemgetter(1), reverse = True): stable
SortedItems(m) == SortDescending(Items(m), <<>>)

-----------------------------------------------------------------------------
(* The input file and the call.                                            *)

Methods == {"degree", "betweenness", "rand"}

\* the group labels of the three subgroups, in the order of their runs
GroupLabel == <<"fungi", "Bact", "lipid">>

\* the keys of the dict d
Key(m, j) ==
    CASE m = "betweenness" -> <<"fungibet", "bactibet", "lipidbet">>[j]
      [] m = "degree" -> <<"fungideg", "bactideg", "lipiddeg">>[j]
      [] m = "rand" -> <<"fungig", "bactig", "lipidg">>[j]

AllPairs(N) == {e \in SUBSET (1..N) : Cardinality(e) = 2}

Complete(N) == [nodes |-> 1..N, edges |-> AllPairs(N)]

Path(N) == [nodes |-> 1..N, edges |-> {{a, a + 1} : a \in 1..(N - 1)}]

Cycle(N) == [nodes |-> 1..N,
             edges |-> {e \in Path(N).edges \cup {{1, N}} : Cardinality(e) = 2}]

Star(N, c) == [nodes |-> 1..N, edges |-> {{c, a} : a \in (1..N) \ {c}}]

\* the graphs read: every graph of at most MaxNodes nodes, and the complete
\* graphs, cycles, paths and stars of at most MaxShape nodes
InputGraphs ==
    {[nodes |-> 1..N, edges |-> E] : N \in 0..MaxNodes, E \in SUBSET AllPairs(MaxNodes)}
    \cup {Complete(N) : N \in 1..MaxShape}
    \cup {Cycle(N) : N \in 1..MaxShape}
    \cup {Path(N) : N \in 1..MaxShape}
    \cup UNION {{Star(N, c) : c \in 1..N} : N \in 1..MaxShape}

VARIABLES
    infile,          \* the graph file read: [nodes, edges, group]
    method,          \* the function called: degree, betweenness or rand
    recalculate,     \* its parameter
    subgraphIsView,  \* Graph.subgraph returns a view of g (networkx 2) or a copy
    g,               \* the graph object shared by the three runs
    pc,              \* "call", "loop", "built", "returned" or "raised"
    k,               \* which entry of d is being evaluated (1..3)
    l, x, y, R, n, i,  \* the locals of rem_betw / rem_degr / rem_rand
    d,               \* the dict d: key -> <<x, y, index>>
    err,             \* the exception that ended the call, "" if none
    gStart,          \* history: g when the current run started
    removed,         \* history: the nodes the current run removed, in order
    runs             \* history: key -> what the run of that key did

vars == <<infile, method, recalculate, subgraphIsView, g, pc, k, l, x, y, R, n,
          i, d, err, gStart, removed, runs>>

\* networkx.read_gml(infile, label = 'id')
read_gml(f) == [nodes |-> f.nodes, edges |-> f.edges]

\* [n for n, attrdict in g.node.items() if attrdict['group'] == label]
GroupNodes(f, j) == {v \in f.nodes : f.group[v] = GroupLabel[j]}

\* fungigraph, bactigraph, lipidgraph as seen when run j starts: a copy made
\* from the graph as read, or a view that has lost the nodes g has lost
Subgraph(f, graph, view, j) ==
    InducedSubgraph(IF view THEN graph ELSE read_gml(f), GroupNodes(f, j))

RECURSIVE shuffle(_)
shuffle(S) ==
    IF S = {} THEN {<<>>}
    ELSE UNION {{<<a>> \o p : p \in shuffle(S \ {a})} : a \in S}

\* the ranking l before the loop: a set, since random.shuffle may give any order
InitialRankings(m, sub) ==
    CASE m = "degree" -> {SortedItems(degree_centrality(sub))}
      [] m = "betweenness" -> {SortedItems(betweenness_centrality(sub))}
      [] m = "rand" -> {[j \in 1..Len(p) |-> <<p[j], Q(0, 1)>>] :
                          p \in shuffle(sub.nodes)}

\* the largest component of the subgraph instead of that of g
InitialComponentOfSubgraph(sub, graph) == LargestComponentSize(sub)

\* the largest component measured before the loop
InitialComponent(sub, graph) == LargestComponentSize(graph)

\* a recalculation that sorts the items by node (itemgetter(0)), not by score
NextRankingByNode(m, recalc, graph, rest) ==
    IF recalc /\ m # "rand"
    THEN LET items == Items(betweenness_centrality(graph))
         IN [j \in 1..Len(items) |-> items[Len(items) + 1 - j]]
    ELSE rest

\* the ranking after a removal from `graph`, `rest` being l after the pop;
\* rem_degr recalculates with betweenness_centrality like rem_betw
NextRanking(m, recalc, graph, rest) ==
    IF recalc /\ m # "rand"
    THEN SortedItems(betweenness_centrality(graph))
    ELSE rest

\* a range that includes its end
range_inclusive(a, b) == a..b

\* range(a, b)
range(a, b) == a..(b - 1)

\* 0.5 - R, the division by n forgotten
VulnerabilityIndexNoMean(r, size) == QSub(Q(1, 2), r)

\* 0.5 - R / n
VulnerabilityIndex(r, size) == QSub(Q(1, 2), QDivInt(r, size))

\* a removal that ignores an absent node, as Graph.remove_nodes_from does
RemoveNodeIgnoresAbsent(graph, v) == FALSE

\* Graph.remove_node raises NetworkXError for a node that is not in the graph
RemoveNodeRaises(graph, v) == v \notin graph.nodes

\* networkx.degree_centrality divides by len(G) - 1: on a one-node graph it
\* raises ZeroDivisionError, except in the releases that special-case it
DegreeCentralityMayRaise(m, sub) == m = "degree" /\ Cardinality(sub.nodes) = 1

\* the exception raised before the loop, "" if none: max() of no component
\* (line 43), division by n = 0 (line 46)
StartError(sub, graph) ==
    IF graph.nodes = {} THEN "ValueError"
    ELSE IF Cardinality(sub.nodes) = 0 THEN "ZeroDivisionError"
    ELSE ""

\* the exception raised by a loop iteration, "" if none: pop from an empty
\* list, removal of an absent node, max() of no component
RemoveError(graph, rank) ==
    IF rank = <<>> THEN "IndexError"
    ELSE IF RemoveNodeRaises(graph, Head(rank)[1]) THEN "NetworkXError"
    ELSE IF remove_node(graph, Head(rank)[1]).nodes = {} THEN "ValueError"
    ELSE ""

\* the locals when the loop is entered: lines 41-47, 76-82, 112-118
BeforeLoop(sub, graph, l0) ==
    [g |-> graph, l |-> l0, n |-> Cardinality(sub.nodes),
     x |-> <<Q(0, 1)>>,
     y |-> <<Q(InitialComponent(sub, graph), Cardinality(sub.nodes))>>,
     R |-> Q(0, 1), i |-> 1, removed |-> <<>>]

\* one iteration of the loop that does not raise: lines 49-58, 84-93, 120-124
LoopBody(m, recalc, s) ==
    LET v == Head(s.l)[1]
        g2 == remove_node(s.g, v)
        lcc == Q(LargestComponentSize(g2), s.n)
    IN [g |-> g2, l |-> NextRanking(m, recalc, g2, Tail(s.l)), n |-> s.n,
        x |-> Append(s.x, Q(s.i, s.n)),
        y |-> Append(s.y, lcc),
        R |-> QAdd(s.R, lcc), i |-> s.i + 1,
        removed |-> Append(s.removed, v)]

\* the loop from the locals s on, to its end or to the iteration that raises
RECURSIVE RunLoop(_, _, _)
RunLoop(m, recalc, s) ==
    IF s.i \notin range(1, s.n) \/ RemoveError(s.g, s.l) # "" THEN s
    ELSE RunLoop(m, recalc, LoopBody(m, recalc, s))

\* rem_*(subgraph, g) as a whole, for the ranking l0: what it returns and the
\* nodes it removed, or that it raised
rem(m, recalc, sub, graph, l0) ==
    LET s == RunLoop(m, recalc, BeforeLoop(sub, graph, l0))
    IN IF s.i \in range(1, s.n)
       THEN [raised |-> TRUE, removed |-> s.removed]
       ELSE [raised |-> FALSE, removed |-> s.removed,
             value |-> <<s.x, s.y, VulnerabilityIndex(s.R, s.n)>>]

NoLocals ==
    /\ l = <<>> /\ x = <<>> /\ y = <<>> /\ R = Q(0, 1) /\ n = 0 /\ i = 0
    /\ removed = <<>>

Init ==
    /\ \E gr \in InputGraphs :
         \E grp \in [gr.nodes -> {GroupLabel[j] : j \in 1..3}] :
            infile = [nodes |-> gr.nodes, edges |-> gr.edges, group |-> grp]
    /\ method \in Methods
    /\ recalculate \in (IF method = "rand" THEN {FALSE} ELSE BOOLEAN)
    /\ subgraphIsView \in BOOLEAN
    /\ g = read_gml(infile)
    /\ pc = "call"
    /\ k = 1
    /\ NoLocals
    /\ d = <<>>
    /\ err = ""
    /\ gStart = g
    /\ runs = <<>>

\* rem_*(subgraph, g) up to the loop: lines 39-47, 74-82, 110-118
StartRun ==
    /\ pc = "call"
    /\ \E sub \in {Subgraph(infile, g, subgraphIsView, k)} :
         /\ StartError(sub, g) = ""
         /\ \E l0 \in InitialRankings(method, sub) :
              \E s \in {BeforeLoop(sub, g, l0)} :
              /\ l' = s.l /\ n' = s.n /\ x' = s.x /\ y' = s.y /\ R' = s.R
              /\ i' = s.i /\ removed' = s.removed
              /\ runs' = runs @@ (Key(method, k) :>
                           [sub |-> sub, l0 |-> l0, gStart |-> g,
                            removed |-> <<>>, gEnd |-> g])
    /\ gStart' = g
    /\ pc' = "loop"
    /\ UNCHANGED <<infile, method, recalculate, subgraphIsView, g, k, d, err>>

\* rem_*(subgraph, g) raising before the loop
StartRunRaises ==
    /\ pc = "call"
    /\ LET sub == Subgraph(infile, g, subgraphIsView, k) IN
         \/ /\ StartError(sub, g) # ""
            /\ err' = StartError(sub, g)
         \/ /\ DegreeCentralityMayRaise(method, sub)
            /\ err' = "ZeroDivisionError"
    /\ pc' = "raised"
    /\ UNCHANGED <<infile, method, recalculate, subgraphIsView, g, k, l, x, y,
                   R, n, i, d, gStart, removed, runs>>

\* one iteration of the loop
Remove ==
    /\ pc = "loop"
    /\ i \in range(1, n)
    /\ RemoveError(g, l) = ""
    /\ \E s \in {LoopBody(method, recalculate,
                         [g |-> g, l |-> l, n |-> n, x |-> x, y |-> y, R |-> R,
                          i |-> i, removed |-> removed])} :
          /\ g' = s.g /\ l' = s.l /\ x' = s.x /\ y' = s.y /\ R' = s.R
          /\ i' = s.i /\ removed' = s.removed
          /\ runs' = [runs EXCEPT ![Key(method, k)].removed = s.removed,
                                  ![Key(method, k)].gEnd = s.g]
    /\ UNCHANGED <<infile, method, recalculate, subgraphIsView, pc, k, n, d,
                   err, gStart>>

\* an iteration of the loop that raises
RemoveRaises ==
    /\ pc = "loop"
    /\ i \in range(1, n)
    /\ RemoveError(g, l) # ""
    /\ err' = RemoveError(g, l)
    /\ l' = IF l = <<>> THEN l ELSE Tail(l)
    /\ g' = IF err' = "ValueError" THEN remove_node(g, Head(l)[1]) ELSE g
    /\ pc' = "raised"
    /\ UNCHANGED <<infile, method, recalculate, subgraphIsView, k, x, y, R, n,
                   i, d, gStart, removed, runs>>

\* the loop is over: return x, y, 0.5 - R / n, the value of d's next key
ReturnRun ==
    /\ pc = "loop"
    /\ i \notin range(1, n)
    /\ d' = d @@ (Key(method, k) :> <<x, y, VulnerabilityIndex(R, n)>>)
    /\ UNCHANGED runs
    /\ IF k < 3 THEN k' = k + 1 /\ pc' = "call" ELSE k' = k /\ pc' = "built"
    /\ l' = <<>> /\ x' = <<>> /\ y' = <<>> /\ R' = Q(0, 1) /\ n' = 0 /\ i' = 0
    /\ removed' = <<>>
    /\ UNCHANGED <<infile, method, recalculate, subgraphIsView, g, err, gStart>>

\* betweenness returns the table built from d (line 63)
ReturnTable ==
    /\ pc = "built"
    /\ method = "betweenness"
    /\ pc' = "returned"
    /\ UNCHANGED <<infile, method, recalculate, subgraphIsView, g, k, l, x, y,
                   R, n, i, d, err, gStart, removed, runs>>

\* degree calls the undefined set_trace (line 98), rand uses the undefined
\* pd (line 129)
TableRaises ==
    /\ pc = "built"
    /\ method \in {"degree", "rand"}
    /\ err' = "NameError"
    /\ pc' = "raised"
    /\ UNCHANGED <<infile, method, recalculate, subgraphIsView, g, k, l, x, y,
                   R, n, i, d, gStart, removed, runs>>

Next ==
    \/ StartRun
    \/ StartRunRaises
    \/ Remove
    \/ RemoveRaises
    \/ ReturnRun
    \/ ReturnTable
    \/ TableRaises

Spec == Init /\ [][Next]_vars

-----------------------------------------------------------------------------
(* The properties.  xs, ys and index are the three values a run returned,   *)
(* runs[key] is what that run was given and did.                            *)

\* C1: a run on a subgroup of n >= 1 nodes returns x and y of exactly n
\* entries each, x[i] = i / n for i = 0..n-1, and y[0] = (the largest
\* component of the graph as the run found it) / n.
C1_CurveShape ==
    \A key \in DOMAIN d :
        LET size == Cardinality(runs[key].sub.nodes)
            xs == d[key][1]
            ys == d[key][2]
        IN /\ size >= 1
           /\ Len(xs) = size
           /\ Len(ys) = size
           /\ \A j \in 1..size : xs[j][1] * size = (j - 1) * xs[j][2]
           /\ xs[1][1] = 0
           /\ xs[size][1] * size = (size - 1) * xs[size][2]
           /\ ys[1][1] * size = LargestComponentSize(runs[key].gStart) * ys[1][2]

C1_Witness ==
    \E key \in DOMAIN d :
        /\ Cardinality(runs[key].sub.nodes) >= 3
        /\ recalculate
        /\ runs[key].gStart # read_gml(infile)

\* C2 as stated: n * (0.5 - index) is the sum of all n recorded fractions,
\* step 0 included, and for the complete graph K_n under the degree method
\* index = 0.5 - (sum for i = 0..n-1 of (n - i) / n) / n.
C2_IndexSumsAllSteps ==
    \A key \in DOMAIN d :
        LET size == Cardinality(runs[key].sub.nodes)
            ys == d[key][2]
            half == QSub(Q(1, 2), d[key][3])
            total == QSumOver(1..Len(ys), ys)
            closed == Q(SumOver(0..(size - 1), [j \in 0..(size - 1) |-> size - j]),
                        size)
        IN /\ half[1] * size * total[2] = total[1] * half[2]
           /\ (/\ method = "degree"
               /\ runs[key].gStart = Complete(size)
               /\ runs[key].sub.nodes = 1..size)
              => d[key][3] = QSub(Q(1, 2), QDivInt(closed, size))

\* C2 amended: n * (0.5 - index) is the sum of the n - 1 fractions recorded
\* after a removal (steps 1..n-1, step 0 left out), and for the complete
\* graph K_n under the degree method
\* index = 0.5 - (sum for i = 1..n-1 of (n - i) / n) / n.
C2_IndexSumsStepsAfterRemoval ==
    \A key \in DOMAIN d :
        LET size == Cardinality(runs[key].sub.nodes)
            ys == d[key][2]
            half == QSub(Q(1, 2), d[key][3])
            total == QSumOver(2..Len(ys), ys)
            closed == Q(SumOver(1..(size - 1), [j \in 1..(size - 1) |-> size - j]),
                        size)
        IN /\ half[1] * size * total[2] = total[1] * half[2]
           /\ (/\ method = "degree"
               /\ runs[key].gStart = Complete(size)
               /\ runs[key].sub.nodes = 1..size)
              => d[key][3] = QSub(Q(1, 2), QDivInt(closed, size))

C2_Witness ==
    /\ method = "degree"
    /\ "fungideg" \in DOMAIN d
    /\ runs["fungideg"].gStart = Complete(5)
    /\ runs["fungideg"].sub.nodes = 1..5

\* C3 as stated: every subgroup's run starts from the full graph as read, so
\* its step-0 largest component is that of the original graph.
C3_RunsIsolated ==
    \A key \in DOMAIN runs :
        /\ runs[key].gStart = read_gml(infile)
        /\ key \in DOMAIN d =>
              d[key][2][1] = Q(LargestComponentSize(read_gml(infile)),
                               Cardinality(runs[key].sub.nodes))

\* C4 as stated: on a cycle graph whose nodes are all in the subgroup, the
\* degree method returns the same x, y and index for both values of
\* recalculate.
C4_CycleSameCurves ==
    \A key \in DOMAIN d :
        LET r == runs[key]
            size == Cardinality(r.sub.nodes)
            other == rem(method, ~recalculate, r.sub, r.gStart, r.l0)
        IN (/\ method = "degree"
            /\ size >= 3
            /\ r.gStart = Cycle(size)
            /\ r.sub.nodes = 1..size)
           => ~other.raised /\ other.value = d[key]

\* C4 amended: when recalculation never changes the removal order, the
\* degree method returns the same x, y and index for both values of
\* recalculate; a complete graph whose nodes are all in the subgroup is such
\* a graph (a cycle is not: it is a path after the first removal).
C4_SameOrderSameCurves ==
    \A key \in DOMAIN d :
        LET r == runs[key]
            size == Cardinality(r.sub.nodes)
            other == rem(method, ~recalculate, r.sub, r.gStart, r.l0)
        IN method = "degree" =>
             /\ (~other.raised /\ other.removed = r.removed)
                   => other.value = d[key]
             /\ (r.gStart = Complete(size) /\ r.sub.nodes = 1..size)
                   => /\ ~other.raised
                      /\ other.removed = r.removed
                      /\ other.value = d[key]

C4_Witness ==
    /\ method = "degree"
    /\ recalculate
    /\ "fungideg" \in DOMAIN d
    /\ runs["fungideg"].gStart = Complete(4)
    /\ runs["fungideg"].sub.nodes = 1..4
    /\ Len(runs["fungideg"].removed) = 3

\* C5 as stated: a subgroup without nodes never makes the run divide by zero.
C5_EmptySubgroupNoDivisionByZero ==
    Subgraph(infile, g, subgraphIsView, k).nodes = {}
        => ~(pc = "raised" /\ err = "ZeroDivisionError")

\* C6: when the node popped from the front of the ranking is not in the
\* graph, the iteration raises: the graph, the curve and d stay as they
\* are, and nothing is appended once the call has raised.
C6_StaleNodeRaises ==
    [][/\ (/\ pc = "loop"
           /\ i \in range(1, n)
           /\ l # <<>>
           /\ Head(l)[1] \notin g.nodes)
          => (/\ pc' = "raised"
              /\ err' = "NetworkXError"
              /\ g' = g /\ x' = x /\ y' = y /\ d' = d)
       /\ pc = "raised"
          => (pc' = "raised" /\ g' = g /\ x' = x /\ y' = y /\ d' = d)]_vars

C6_Witness ==
    /\ pc = "raised"
    /\ err = "NetworkXError"
    /\ i \in range(1, n)
    /\ k >= 2
    /\ Len(x) = i

\* C7: for a connected input graph and recalculate = True, the y of every
\* run of the degree and betweenness methods is non-increasing.
C7_YNonIncreasing ==
    (/\ recalculate
     /\ method \in {"degree", "betweenness"}
     /\ IsConnected(read_gml(infile)))
    => \A key \in DOMAIN d :
          \A j \in 1..(Len(d[key][2]) - 1) :
              ~QLess(d[key][2][j], d[key][2][j + 1])

C7_Witness ==
    /\ recalculate
    /\ method = "betweenness"
    /\ IsConnected(read_gml(infile))
    /\ \E key \in DOMAIN d :
          /\ Len(d[key][2]) >= 3
          /\ QLess(d[key][2][3], d[key][2][2])

\* C8 as stated: a run on a subgroup of n nodes removes exactly n - 1 nodes
\* and leaves exactly one node of the subgroup in the graph.
C8_OneSubgroupNodeLeft ==
    \A key \in DOMAIN d :
        LET r == runs[key] IN
        /\ Len(r.removed) = Cardinality(r.sub.nodes) - 1
        /\ Cardinality(r.sub.nodes \cap r.gEnd.nodes) = 1

\* C8 amended: a run on a subgroup of n >= 1 nodes removes exactly n - 1
\* nodes of the graph and the graph has a node whenever its largest
\* component is measured; with recalculate = False exactly one node of the
\* subgroup is left in the graph when the run ends (with recalculate = True
\* the nodes removed after the first need not be nodes of the subgroup).
C8_RemovesAllButOne ==
    /\ pc = "loop" => g.nodes # {}
    /\ err = "ValueError" => infile.nodes = {}
    /\ \A key \in DOMAIN d :
          LET r == runs[key] IN
          /\ Len(r.removed) = Cardinality(r.sub.nodes) - 1
          /\ Cardinality(r.gStart.nodes \ r.gEnd.nodes)
                = Cardinality(r.sub.nodes) - 1
          /\ r.gEnd.nodes # {}
          /\ ~recalculate =>
                Cardinality(r.sub.nodes \cap r.gEnd.nodes) = 1

C8_Witness ==
    /\ ~recalculate
    /\ \E key \in DOMAIN d :
          /\ Cardinality(runs[key].sub.nodes) >= 3
          /\ runs[key].gStart.nodes # runs[key].sub.nodes

\* C9 as stated: in the degree method with recalculate = True the node
\* removed at a step i >= 2 has maximal degree among the nodes then in the
\* graph.
C9_RemovesMaximalDegree ==
    (/\ method = "degree"
     /\ recalculate
     /\ pc = "loop"
     /\ i >= 2
     /\ i \in range(1, n)
     /\ RemoveError(g, l) = "")
    => \A u \in g.nodes : Degree(g, u) <= Degree(g, Head(l)[1])

\* C10: with recalculate = False a run removes exactly the first n - 1 nodes
\* of its initial ranking; for the degree and betweenness methods that
\* ranking lists the subgroup's nodes by descending score in the induced
\* subgraph, equal scores in iteration order (for rand it is a shuffle of
\* them); every removed node is in the subgroup and every other node the
\* run found in the graph is still there at its end.
C10_FixedRemovalOrder ==
    ~recalculate
    => \A key \in DOMAIN d :
          LET r == runs[key]
              size == Cardinality(r.sub.nodes)
              score == IF method = "degree"
                       THEN [v \in r.sub.nodes |-> Q(Degree(r.sub, v), 1)]
                       ELSE betweenness_centrality(r.sub)
          IN /\ Len(r.l0) = size
             /\ {r.l0[j][1] : j \in 1..size} = r.sub.nodes
             /\ method # "rand" =>
                  \A a, b \in 1..size :
                     a < b =>
                        /\ ~QLess(score[r.l0[a][1]], score[r.l0[b][1]])
                        /\ score[r.l0[a][1]] = score[r.l0[b][1]]
                              => r.l0[a][1] < r.l0[b][1]
             /\ r.removed = [j \in 1..(size - 1) |-> r.l0[j][1]]
             /\ \A j \in 1..Len(r.removed) : r.removed[j] \in r.sub.nodes
             /\ (r.gStart.nodes \ r.sub.nodes) \subseteq r.gEnd.nodes

C10_Witness ==
    /\ ~recalculate
    /\ method = "degree"
    /\ \E key \in DOMAIN d :
          LET r == runs[key] IN
          /\ Len(r.removed) >= 2
          /\ r.gStart.nodes \ r.sub.nodes # {}
          /\ r.removed[1] > r.removed[2]
          /\ Degree(r.sub, r.removed[1]) > Degree(r.sub, r.removed[2])

====
